---- MODULE Spec2Model ----
(***************************************************************************)
(* HighResNet (eisen/models/segmentation/highres3Dnet.py): the network is  *)
(* modelled by its declared topology.  A tensor is modelled by its shape   *)
(* (channel count and spatial size); a layer by its hyperparameters.       *)
(***************************************************************************)
EXTENDS Integers, Sequences, FiniteSets, TLC

\* ---- bounds of the explored configurations ----
MaxChannels == 2
MaxPower == 1
MaxDilations == 2
MaxResidualBlocks == 2
MaxLayers == 2
MaxSpatial == 3
MaxSpacing == 1

\* ---- program constants ----
PADDING_MODES == {"reflect", "replicate", "constant"}
DropoutChannels == 80
DefaultKernelSize == 3
NoDimensions == 0

\* values a caller may pass
PaddingArgs == PADDING_MODES \cup {"circular"}
ActivationArgs == {"sigmoid", "softmax", "none", "tanh"}
DimensionArgs == {NoDimensions, 2, 3}

RECURSIVE Pow(_, _)
Pow(b, e) == IF e = 0 THEN 1 ELSE b * Pow(b, e - 1)

AssertionError == [kind |-> "AssertionError"]
IsError(m) == m.kind = "AssertionError"
AnyError(ms) == \E i \in 1..Len(ms) : IsError(ms[i])

\* ---- framework layers, by their constructor arguments ----
NormLayer(norm, num_features) ==
    [kind |-> norm, num_features |-> num_features]
ReLULayer == [kind |-> "ReLU"]
PadLayer(pad, mode, dimensions) ==
    [kind |-> "Pad", pad |-> pad, mode |-> mode, dimensions |-> dimensions]
ConvLayer(in_channels, out_channels, kernel_size, dilation, bias, dimensions) ==
    [kind |-> "Conv", in_channels |-> in_channels, out_channels |-> out_channels,
     kernel_size |-> kernel_size, dilation |-> dilation, bias |-> bias,
     dimensions |-> dimensions]
Dropout3d == [kind |-> "Dropout3d"]

\* ---- ConvolutionalBlock.__init__ ----
ConvolutionalBlockAssertsMut(padding_mode, batch_norm, instance_norm) ==
    padding_mode \notin PADDING_MODES

ConvolutionalBlockAsserts(padding_mode, batch_norm, instance_norm) ==
    \/ padding_mode \notin PADDING_MODES
    \/ batch_norm /\ instance_norm

NormClass(batch_norm, instance_norm) ==
    IF instance_norm THEN "InstanceNorm" ELSE "BatchNorm"

UseBiasMut(batch_norm, instance_norm) == ~instance_norm

UseBias(batch_norm, instance_norm) == ~(instance_norm \/ batch_norm)

ConvolutionalBlockMut(in_channels, out_channels, dilation, dimensions, batch_norm, instance_norm, padding_mode, preactivation, kernel_size, activation) ==
    IF ConvolutionalBlockAsserts(padding_mode, batch_norm, instance_norm)
    THEN AssertionError
    ELSE [kind |-> "ConvolutionalBlock",
          convolutional_block |->
              (IF preactivation /\ activation THEN <<ReLULayer>> ELSE <<>>)
           \o (IF preactivation /\ (batch_norm \/ instance_norm)
               THEN <<NormLayer(NormClass(batch_norm, instance_norm), in_channels)>>
               ELSE <<>>)
           \o (IF kernel_size > 1
               THEN <<PadLayer(dilation, padding_mode, dimensions)>> ELSE <<>>)
           \o <<ConvLayer(in_channels, out_channels, kernel_size, dilation,
                          UseBias(batch_norm, instance_norm), dimensions)>>
           \o (IF ~preactivation /\ (batch_norm \/ instance_norm)
               THEN <<NormLayer(NormClass(batch_norm, instance_norm), out_channels)>>
               ELSE <<>>)
           \o (IF ~preactivation /\ activation THEN <<ReLULayer>> ELSE <<>>)]

ConvolutionalBlock(in_channels, out_channels, dilation, dimensions, batch_norm, instance_norm, padding_mode, preactivation, kernel_size, activation) ==
    IF ConvolutionalBlockAsserts(padding_mode, batch_norm, instance_norm)
    THEN AssertionError
    ELSE [kind |-> "ConvolutionalBlock",
          convolutional_block |->
              (IF preactivation /\ (batch_norm \/ instance_norm)
               THEN <<NormLayer(NormClass(batch_norm, instance_norm), in_channels)>>
               ELSE <<>>)
           \o (IF preactivation /\ activation THEN <<ReLULayer>> ELSE <<>>)
           \o (IF kernel_size > 1
               THEN <<PadLayer(dilation, padding_mode, dimensions)>> ELSE <<>>)
           \o <<ConvLayer(in_channels, out_channels, kernel_size, dilation,
                          UseBias(batch_norm, instance_norm), dimensions)>>
           \o (IF ~preactivation /\ (batch_norm \/ instance_norm)
               THEN <<NormLayer(NormClass(batch_norm, instance_norm), out_channels)>>
               ELSE <<>>)
           \o (IF ~preactivation /\ activation THEN <<ReLULayer>> ELSE <<>>)]

\* ---- ResidualBlock.__init__ (residual_type keeps its default 'pad') ----
ResidualBlock(in_channels, out_channels, num_layers, dilation, dimensions, batch_norm, instance_norm, residual, padding_mode) ==
    LET conv_blocks == [i \in 1..num_layers |->
            ConvolutionalBlock(IF i = 1 THEN in_channels ELSE out_channels,
                               out_channels, dilation, dimensions, batch_norm,
                               instance_norm, padding_mode, TRUE,
                               DefaultKernelSize, TRUE)]
    IN  IF AnyError(conv_blocks) THEN AssertionError
        ELSE [kind |-> "ResidualBlock",
              residual |-> residual,
              change_dimension |-> (in_channels # out_channels),
              residual_type |-> "pad",
              dimensions |-> dimensions,
              residual_block |-> conv_blocks]

\* ---- DilationBlock.__init__ ----
DilationBlock(in_channels, out_channels, dilation, dimensions, layers_per_block, num_residual_blocks, batch_norm, instance_norm, residual, padding_mode) ==
    LET residual_blocks == [i \in 1..num_residual_blocks |->
            ResidualBlock(IF i = 1 THEN in_channels ELSE out_channels,
                          out_channels, layers_per_block, dilation, dimensions,
                          batch_norm, instance_norm, residual, padding_mode)]
    IN  IF AnyError(residual_blocks) THEN AssertionError
        ELSE [kind |-> "DilationBlock",
              in_channels |-> in_channels,
              out_channels |-> out_channels,
              dilation_block |-> residual_blocks]

\* ---- HighResNet.__init__ ----
DilationFactorMut(dilation_idx) == 2 * dilation_idx + 1

DilationFactor(dilation_idx) == Pow(2, dilation_idx)

\* the loop "for dilation_idx in range(dilations)"; st carries the loop's
\* local variables in_channels, out_channels and the list of blocks
RECURSIVE DilationLoop(_, _, _)
DilationLoop(dilation_idx, st, a) ==
    IF dilation_idx >= a.dilations THEN st
    ELSE LET in_channels == IF dilation_idx >= 1
                            THEN st.blocks[Len(st.blocks)].out_channels
                            ELSE st.in_channels
             dilation_block ==
                 DilationBlock(in_channels, st.out_channels,
                               DilationFactor(dilation_idx), a.dimensions,
                               a.layers_per_residual_block,
                               a.residual_blocks_per_dilation,
                               a.batch_norm, a.instance_norm, a.residual,
                               a.padding_mode)
         IN  IF IsError(dilation_block)
             THEN [st EXCEPT !.raised = TRUE]
             ELSE DilationLoop(dilation_idx + 1,
                               [st EXCEPT !.in_channels = in_channels,
                                          !.out_channels = st.out_channels * 2,
                                          !.blocks = Append(st.blocks, dilation_block)],
                               a)

OutputsActivation(outputs_activation) ==
    CASE outputs_activation = "sigmoid" -> "Sigmoid"
      [] outputs_activation = "softmax" -> "Softmax"
      [] outputs_activation = "none" -> "Identity"
      [] OTHER -> "unset"

HighResNet(a) ==
    IF a.dimensions \notin {2, 3} THEN AssertionError
    ELSE
    LET initial_out_channels == Pow(2, a.initial_out_channels_power)
        first_conv_block ==
            ConvolutionalBlock(a.input_channels, initial_out_channels, 1,
                               a.dimensions, a.batch_norm, a.instance_norm,
                               a.padding_mode, FALSE, DefaultKernelSize, TRUE)
    IN
    IF IsError(first_conv_block) THEN AssertionError
    ELSE
    LET loop == DilationLoop(0, [in_channels |-> initial_out_channels,
                                 out_channels |-> initial_out_channels,
                                 blocks |-> <<first_conv_block>>,
                                 raised |-> FALSE], a)
        out_channels == loop.out_channels \div 2
        dropout_conv_block ==
            ConvolutionalBlock(out_channels, DropoutChannels, 1, a.dimensions,
                               a.batch_norm, a.instance_norm, "constant",
                               FALSE, 1, TRUE)
        classifier_in == IF a.add_dropout_layer THEN DropoutChannels
                         ELSE out_channels
        classifier ==
            ConvolutionalBlock(classifier_in, a.output_channels, 1, a.dimensions,
                               a.batch_norm, a.instance_norm, a.padding_mode,
                               FALSE, 1, FALSE)
    IN
    IF loop.raised THEN AssertionError
    ELSE IF a.add_dropout_layer /\ IsError(dropout_conv_block) THEN AssertionError
    ELSE IF IsError(classifier) THEN AssertionError
    ELSE [kind |-> "HighResNet",
          in_channels |-> a.input_channels,
          out_channels |-> a.output_channels,
          layers_per_residual_block |-> a.layers_per_residual_block,
          residual_blocks_per_dilation |-> a.residual_blocks_per_dilation,
          dilations |-> a.dilations,
          outputs_activation |-> OutputsActivation(a.outputs_activation),
          block |-> loop.blocks
                    \o (IF a.add_dropout_layer
                        THEN <<dropout_conv_block, Dropout3d>> ELSE <<>>)
                    \o <<classifier>>]

\* HighRes2DNet / HighRes3DNet pass dimensions = 2 / 3 to HighResNet
HighRes2DNet(a) == HighResNet([a EXCEPT !.dimensions = 2])
HighRes3DNet(a) == HighResNet([a EXCEPT !.dimensions = 3])

\* ---- forward computation on tensor shapes ----
\* A tensor is [ok, channels, spatial, adds]: ok is FALSE once the framework
\* has raised a shape error, spatial is the size of every spatial dimension,
\* adds logs each residual addition performed so far.
Tensor(channels, spatial) ==
    [ok |-> TRUE, channels |-> channels, spatial |-> spatial, adds |-> <<>>]
Raise(x) == [x EXCEPT !.ok = FALSE]

PaddedSizeMut(size, pad) == size + pad

PaddedSize(size, pad) == size + 2 * pad

\* Pad3d.forward / nn.<Mode>Pad2d: pad every side of every spatial dimension
PadForward(l, x) ==
    IF l.mode = "reflect" /\ l.pad >= x.spatial THEN Raise(x)
    ELSE [x EXCEPT !.spatial = PaddedSize(x.spatial, l.pad)]

ConvForward(l, x) ==
    LET size == x.spatial - l.dilation * (l.kernel_size - 1)
    IN  IF x.channels # l.in_channels \/ size < 1 THEN Raise(x)
        ELSE [x EXCEPT !.channels = l.out_channels, !.spatial = size]

NormForward(l, x) ==
    IF l.kind = "BatchNorm" /\ x.channels # l.num_features THEN Raise(x) ELSE x

\* x + out with the framework's broadcasting of size-1 dimensions
Broadcast(m, n) == IF m = n \/ n = 1 THEN m ELSE IF m = 1 THEN n ELSE 0
TensorAdd(x, out) ==
    LET c == Broadcast(x.channels, out.channels)
        s == Broadcast(x.spatial, out.spatial)
    IN  IF c = 0 \/ s = 0 THEN Raise(out)
        ELSE [out EXCEPT !.channels = c, !.spatial = s]

RECURSIVE ModuleForward(_, _)
RECURSIVE Sequential(_, _, _)
\* nn.Sequential: feed x through mods[i], mods[i+1], ...
Sequential(mods, i, x) ==
    IF i > Len(mods) \/ ~x.ok THEN x
    ELSE Sequential(mods, i + 1, ModuleForward(mods[i], x))

\* ResidualBlock.forward
ResidualBlockForward(m, x) ==
    LET out == Sequential(m.residual_block, 1, x)
        x_channels == x.channels
        out_channels == out.channels
        diff_channels == out_channels - x_channels
        zeros_half == diff_channels \div 2
        padded == m.change_dimension /\ m.residual_type = "pad"
        shortcut == IF padded
                    THEN [x EXCEPT !.channels = zeros_half + x_channels + zeros_half]
                    ELSE x
        entry == [change_dimension |-> m.change_dimension,
                  x_channels |-> x_channels,
                  out_channels |-> out_channels,
                  zeros_before |-> IF padded THEN zeros_half ELSE 0,
                  zeros_after |-> IF padded THEN zeros_half ELSE 0,
                  shortcut_channels |-> shortcut.channels,
                  shortcut_spatial |-> shortcut.spatial,
                  out_spatial |-> out.spatial]
        logged == [out EXCEPT !.adds = Append(out.adds, entry)]
    IN  IF ~out.ok \/ ~m.residual THEN out
        ELSE IF padded /\ zeros_half < 0 THEN Raise(out)
        ELSE TensorAdd(shortcut, logged)

ModuleForward(m, x) ==
    CASE m.kind = "ConvolutionalBlock" -> Sequential(m.convolutional_block, 1, x)
      [] m.kind = "ResidualBlock" -> ResidualBlockForward(m, x)
      [] m.kind = "DilationBlock" -> Sequential(m.dilation_block, 1, x)
      [] m.kind = "Pad" -> PadForward(m, x)
      [] m.kind = "Conv" -> ConvForward(m, x)
      [] m.kind \in {"BatchNorm", "InstanceNorm"} -> NormForward(m, x)
      [] m.kind \in {"ReLU", "Dropout3d"} -> x

\* HighResNet.forward: the attribute self.outputs_activation is looked up
\* before self.block(x) is evaluated
HighResNetForward(n, x) ==
    IF n.outputs_activation = "unset"
    THEN [kind |-> "AttributeError"]
    ELSE [kind |-> "Tensor",
          activation |-> n.outputs_activation,
          value |-> Sequential(n.block, 1, x)]

\* ---- HighResNet.num_parameters ----
RECURSIVE Flatten(_, _)
RECURSIVE Modules(_)
Flatten(mods, i) ==
    IF i > Len(mods) THEN <<>> ELSE Modules(mods[i]) \o Flatten(mods, i + 1)

\* the leaf layers of a module, in registration order
Modules(m) ==
    CASE m.kind = "HighResNet" -> Flatten(m.block, 1)
      [] m.kind = "ConvolutionalBlock" -> Flatten(m.convolutional_block, 1)
      [] m.kind = "ResidualBlock" -> Flatten(m.residual_block, 1)
      [] m.kind = "DilationBlock" -> Flatten(m.dilation_block, 1)
      [] OTHER -> <<m>>

\* shapes of the parameters a leaf layer registers
Parameters(l) ==
    CASE l.kind = "Conv" ->
            <<(<<l.out_channels, l.in_channels>>
               \o [i \in 1..l.dimensions |-> l.kernel_size])>>
            \o (IF l.bias THEN << <<l.out_channels>> >> ELSE <<>>)
      [] l.kind = "BatchNorm" -> << <<l.num_features>>, <<l.num_features>> >>
      [] OTHER -> <<>>

RECURSIVE Prod(_, _)
Prod(shape, i) == IF i > Len(shape) THEN 1 ELSE shape[i] * Prod(shape, i + 1)

RECURSIVE SumProd(_, _)
SumProd(shapes, i) ==
    IF i > Len(shapes) THEN 0 ELSE Prod(shapes[i], 1) + SumProd(shapes, i + 1)

RECURSIVE AllParameters(_, _)
AllParameters(ls, i) ==
    IF i > Len(ls) THEN <<>> ELSE Parameters(ls[i]) \o AllParameters(ls, i + 1)

NumParameters(n) == SumProd(AllParameters(Modules(n), 1), 1)

\* ---- HighResNet.receptive_field ----
RECURSIVE SumArange(_, _, _, _)
\* torch.sum(B * N * 2 ** (d + 1)) for d = torch.arange(D)
SumArange(B, N, D, d) ==
    IF d >= D THEN 0 ELSE B * N * Pow(2, d + 1) + SumArange(B, N, D, d + 1)

ReceptiveFieldMut(n) ==
    LET B == n.layers_per_residual_block
        D == n.dilations
        N == n.residual_blocks_per_dilation
        input_output_diff == (3 - 1) + SumArange(B, N, D, 1)
    IN  input_output_diff + 1

ReceptiveField(n) ==
    LET B == n.layers_per_residual_block
        D == n.dilations
        N == n.residual_blocks_per_dilation
        input_output_diff == (3 - 1) + SumArange(B, N, D, 0)
    IN  input_output_diff + 1

GetReceptiveFieldWorld(n, spacing) == ReceptiveField(n) * spacing

\* ---- the program as a state machine ----
\* args: the constructor's arguments; pc: "new", "constructed" or
\* "AssertionError"; net: the instance; call: the last method called;
\* x: the argument of the last call; ret: what the last call returned
VARIABLES args, pc, net, call, x, ret
vars == <<args, pc, net, call, x, ret>>

NoNet == [kind |-> "None"]
NoReturn == [kind |-> "None"]
NoArgument == [kind |-> "None"]

\* Every combination of the options a caller can pass, valid or not, on the
\* small topologies (one layer per residual block, one residual block per
\* dilation, one input and one output channel).
OptionArgs ==
    [input_channels : {1},
     output_channels : {1},
     initial_out_channels_power : {0, 1},
     outputs_activation : ActivationArgs,
     dimensions : DimensionArgs,
     layers_per_residual_block : {1},
     residual_blocks_per_dilation : {1},
     dilations : {0, 1, 2},
     batch_norm : BOOLEAN,
     instance_norm : BOOLEAN,
     residual : BOOLEAN,
     padding_mode : PaddingArgs,
     add_dropout_layer : BOOLEAN]

\* Every topology within the bounds (one or MaxChannels output channels),
\* with and without batch normalization and the dropout layer, the other
\* options at their defaults.
TopologyArgs ==
    {a \in [input_channels : 1..MaxChannels,
            output_channels : {1, MaxChannels},
            initial_out_channels_power : 0..MaxPower,
            outputs_activation : {"sigmoid"},
            dimensions : {3},
            layers_per_residual_block : 0..MaxLayers,
            residual_blocks_per_dilation : 0..MaxResidualBlocks,
            dilations : 0..MaxDilations,
            batch_norm : BOOLEAN,
            instance_norm : {FALSE},
            residual : {TRUE},
            padding_mode : {"constant"},
            add_dropout_layer : BOOLEAN] :
        ~(a.batch_norm /\ a.instance_norm)}

Args == OptionArgs \cup TopologyArgs

Init ==
    /\ args \in Args
    /\ pc = "new"
    /\ net = NoNet
    /\ call = "none"
    /\ x = NoArgument
    /\ ret = NoReturn

\* HighResNet(...): the constructor returns an instance or raises
Construct ==
    /\ pc = "new"
    /\ LET n == HighResNet(args)
       IN  /\ pc' = IF IsError(n) THEN "AssertionError" ELSE "constructed"
           /\ net' = IF IsError(n) THEN NoNet ELSE n
    /\ call' = "__init__"
    /\ UNCHANGED <<args, x, ret>>

\* forward on a batch with the declared number of input channels or one more
Forward ==
    /\ pc = "constructed"
    /\ \E channels \in {net.in_channels, net.in_channels + 1},
          spatial \in 1..MaxSpatial :
          /\ x' = [kind |-> "Tensor", value |-> Tensor(channels, spatial)]
          /\ ret' = HighResNetForward(net, x'.value)
    /\ call' = "forward"
    /\ UNCHANGED <<args, pc, net>>

NumParametersCall ==
    /\ pc = "constructed"
    /\ ret' = [kind |-> "Int", value |-> NumParameters(net)]
    /\ call' = "num_parameters"
    /\ x' = NoArgument
    /\ UNCHANGED <<args, pc, net>>

ReceptiveFieldCallMut ==
    /\ pc = "constructed"
    /\ ret' = [kind |-> "Int", value |-> ReceptiveField(net)]
    /\ call' = "receptive_field"
    /\ net' = [net EXCEPT !.dilations = net.dilations + 1]
    /\ x' = NoArgument
    /\ UNCHANGED <<args, pc>>

ReceptiveFieldCall ==
    /\ pc = "constructed"
    /\ ret' = [kind |-> "Int", value |-> ReceptiveField(net)]
    /\ call' = "receptive_field"
    /\ x' = NoArgument
    /\ UNCHANGED <<args, pc, net>>

GetReceptiveFieldWorldCall ==
    /\ pc = "constructed"
    /\ \E spacing \in 1..MaxSpacing :
          /\ x' = [kind |-> "Int", value |-> spacing]
          /\ ret' = [kind |-> "Int", value |-> GetReceptiveFieldWorld(net, spacing)]
    /\ call' = "get_receptive_field_world"
    /\ UNCHANGED <<args, pc, net>>

Next ==
    \/ Construct
    \/ Forward
    \/ NumParametersCall
    \/ ReceptiveFieldCall
    \/ GetReceptiveFieldWorldCall

Spec == Init /\ [][Next]_vars

\* ---- the constructed topology, as the properties below read it ----
Constructed == pc = "constructed"
IsConv(l) == l.kind = "Conv"
IsNorm(l) == l.kind \in {"BatchNorm", "InstanceNorm"}
Convs(n) == SelectSeq(Modules(n), IsConv)
Norms(n) == SelectSeq(Modules(n), IsNorm)
Kinds(layers) == [i \in 1..Len(layers) |-> layers[i].kind]
Classifier(n) == n.block[Len(n.block)]
DilationBlockAt(n, d) == n.block[d + 2]
HasDropout(n) == \E i \in 1..Len(n.block) : n.block[i].kind = "Dropout3d"

RECURSIVE SumExtent(_, _)
SumExtent(cs, i) ==
    IF i > Len(cs) THEN 0
    ELSE (cs[i].kernel_size - 1) * cs[i].dilation + SumExtent(cs, i + 1)

\* C1: the value receptive_field returns is 1 plus the sum, over every
\* convolution placed in the block sequence, of (kernel_size - 1) * dilation.
C1_ReceptiveFieldMatchesTopology ==
    (Constructed /\ call = "receptive_field")
        => ret.value = 1 + SumExtent(Convs(net), 1)

C1_Witness ==
    /\ Constructed /\ call = "receptive_field"
    /\ net.dilations = 2
    /\ net.residual_blocks_per_dilation = 2
    /\ net.layers_per_residual_block = 2
    /\ HasDropout(net)
    /\ Len(Convs(net)) = 11
    /\ ret.value = 27

\* C2: the convolutions of the block sequence chain in the channel
\* dimension: the first expects input_channels, each later one expects what
\* the one before it emits, and the last emits output_channels.
C2_ChannelsChain ==
    Constructed =>
        LET cs == Convs(net)
        IN  /\ cs[1].in_channels = args.input_channels
            /\ \A i \in 2..Len(cs) : cs[i].in_channels = cs[i - 1].out_channels
            /\ cs[Len(cs)].out_channels = args.output_channels

\* C3: construction raises an assertion error exactly when batch_norm and
\* instance_norm are both set, or padding_mode is not one of reflect,
\* replicate, constant, or dimensions is neither 2 nor 3; HighRes2DNet and
\* HighRes3DNet, which fix dimensions, raise exactly in the first two cases.
C3_BadOptions ==
    \/ args.batch_norm /\ args.instance_norm
    \/ args.padding_mode \notin {"reflect", "replicate", "constant"}
C3_AssertionExactlyOnBadOptions ==
    pc # "new" =>
        /\ pc = "AssertionError" <=> (C3_BadOptions \/ args.dimensions \notin {2, 3})
        /\ pc = "AssertionError" => net = NoNet
        /\ IsError(HighRes2DNet(args)) <=> C3_BadOptions
        /\ IsError(HighRes3DNet(args)) <=> C3_BadOptions

C3_Witness ==
    /\ pc = "AssertionError"
    /\ args.batch_norm /\ args.instance_norm
    /\ args.padding_mode = "constant"
    /\ args.dimensions = 3
    /\ args.dilations = 0
    /\ args.add_dropout_layer

\* C4: at every residual addition of a block that changes the channel
\* count, the shortcut is the input between two groups of zero channels and
\* has exactly as many channels as the block's output.
C4_ShortcutMatchesOutput ==
    (Constructed /\ call = "forward" /\ ret.kind = "Tensor") =>
        \A i \in 1..Len(ret.value.adds) :
            LET e == ret.value.adds[i]
            IN  e.change_dimension =>
                    /\ e.shortcut_channels = e.out_channels
                    /\ e.zeros_before + e.x_channels + e.zeros_after = e.out_channels

\* C5: every constructed instance has one of the three output activations,
\* and forward never fails for lack of one.
C5_OutputActivationDefined ==
    Constructed =>
        /\ net.outputs_activation \in {"Sigmoid", "Softmax", "Identity"}
        /\ call = "forward" => ret.kind = "Tensor"

\* C6: no call to forward, receptive_field, get_receptive_field_world or
\* num_parameters changes the instance, and repeated receptive_field and
\* num_parameters calls return the same value.
C6_HyperparametersImmutable ==
    [][Constructed =>
          /\ net' = net
          /\ (call = call' /\ call \in {"receptive_field", "num_parameters"})
                => ret' = ret]_vars

C6_Witness ==
    /\ Constructed /\ call = "forward" /\ ret.kind = "Tensor" /\ ret.value.ok
    /\ Len(ret.value.adds) = 4
    /\ net = HighResNet(args)

\* C7: the d-th dilation block holds residual_blocks_per_dilation residual
\* blocks of layers_per_residual_block convolutional blocks each, every
\* convolution and padding in it has dilation 2^d, and only the first
\* convolution of its first residual block may change the channel count.
C7_DilationBlockShape ==
    Constructed =>
        \A d \in 0..(args.dilations - 1) :
            LET db == DilationBlockAt(net, d)
            IN  /\ db.kind = "DilationBlock"
                /\ Len(db.dilation_block) = args.residual_blocks_per_dilation
                /\ \A r \in 1..Len(db.dilation_block) :
                     LET rb == db.dilation_block[r].residual_block
                     IN  /\ Len(rb) = args.layers_per_residual_block
                         /\ \A c \in 1..Len(rb) :
                              LET ls == rb[c].convolutional_block
                              IN  \A k \in 1..Len(ls) :
                                    /\ ls[k].kind = "Conv" =>
                                         /\ ls[k].dilation = Pow(2, d)
                                         /\ (ls[k].in_channels # ls[k].out_channels
                                               => (r = 1 /\ c = 1))
                                    /\ ls[k].kind = "Pad" => ls[k].pad = Pow(2, d)

C7_Witness ==
    /\ Constructed
    /\ args.dilations = 2
    /\ args.residual_blocks_per_dilation = 2
    /\ args.layers_per_residual_block = 2
    /\ args.batch_norm
    /\ DilationBlockAt(net, 1).dilation_block[1].residual_block[1]
          .convolutional_block[4].dilation = 2

RECURSIVE SumConvParameters(_, _, _)
SumConvParameters(cs, i, with_bias) ==
    IF i > Len(cs) THEN 0
    ELSE cs[i].in_channels * cs[i].out_channels
             * Pow(cs[i].kernel_size, cs[i].dimensions)
         + (IF with_bias THEN cs[i].out_channels ELSE 0)
         + SumConvParameters(cs, i + 1, with_bias)

RECURSIVE SumNormParameters(_, _)
SumNormParameters(ns, i) ==
    IF i > Len(ns) THEN 0
    ELSE (IF ns[i].kind = "BatchNorm" THEN 2 * ns[i].num_features ELSE 0)
         + SumNormParameters(ns, i + 1)

ResidualBlocks(n) ==
    {rb \in UNION {{n.block[i].dilation_block[r] :
                        r \in 1..Len(n.block[i].dilation_block)} :
                   i \in {j \in 1..Len(n.block) : n.block[j].kind = "DilationBlock"}} :
        TRUE}

\* C8: num_parameters is the sum over the convolutions of in_channels *
\* out_channels * kernel_size^dimensions, plus out_channels for each
\* convolution when neither normalization is set, plus the learnable
\* per-channel parameters of the normalization layers (weight and bias of each
\* batch normalization, none for instance normalization); every residual block
\* uses the zero-padding shortcut.
C8_NumParametersMatchesTopology ==
    (Constructed /\ call = "num_parameters") =>
        /\ ret.value =
             SumConvParameters(Convs(net), 1,
                               ~(args.batch_norm \/ args.instance_norm))
             + SumNormParameters(Norms(net), 1)
        /\ \A rb \in ResidualBlocks(net) : rb.residual_type = "pad"

C8_Witness ==
    /\ Constructed /\ call = "num_parameters"
    /\ args.input_channels = 2 /\ args.output_channels = 2
    /\ args.initial_out_channels_power = 1
    /\ args.dilations = 2
    /\ args.residual_blocks_per_dilation = 1
    /\ args.layers_per_residual_block = 1
    /\ args.batch_norm /\ ~args.add_dropout_layer
    /\ ret.value = 456

ConvolutionalBlocks(n) ==
    {n.block[i] : i \in {j \in 1..Len(n.block) :
                            n.block[j].kind = "ConvolutionalBlock"}}
    \cup UNION {{rb.residual_block[c] : c \in 1..Len(rb.residual_block)} :
                rb \in ResidualBlocks(n)}

\* C9: a convolutional block with kernel size 3 pads every side by its
\* dilation, one with kernel size 1 does not pad; the spatial size forward
\* returns is the size it was given, and at every residual addition the
\* shortcut and the convolved output have the same spatial size.
C9_SpatialSizePreserved ==
    /\ Constructed =>
         \A cb \in ConvolutionalBlocks(net) :
            LET ls == cb.convolutional_block
            IN  \A k \in 1..Len(ls) :
                  /\ (ls[k].kind = "Conv" /\ ls[k].kernel_size = 3) =>
                        /\ k > 1 /\ ls[k - 1].kind = "Pad"
                        /\ ls[k - 1].pad = ls[k].dilation
                  /\ (ls[k].kind = "Conv" /\ ls[k].kernel_size = 1) =>
                        \A j \in 1..Len(ls) : ls[j].kind # "Pad"
    /\ (Constructed /\ call = "forward" /\ ret.kind = "Tensor") =>
         /\ ret.value.ok => ret.value.spatial = x.value.spatial
         /\ \A i \in 1..Len(ret.value.adds) :
              /\ ret.value.adds[i].shortcut_spatial = x.value.spatial
              /\ ret.value.adds[i].out_spatial = x.value.spatial

C9_Witness ==
    /\ Constructed /\ call = "forward" /\ ret.kind = "Tensor" /\ ret.value.ok
    /\ args.dilations = 2 /\ args.padding_mode = "reflect"
    /\ args.dimensions = 2
    /\ x.value.spatial = 3
    /\ Len(ret.value.adds) = 2
    /\ ret.value.spatial = 3

\* C10: the layers of each convolutional block come in the order its flags
\* fix: the first block is [padding, convolution, normalization, ReLU], a
\* block inside a residual block is [normalization, ReLU, padding,
\* convolution], the dropout convolution is [convolution, normalization,
\* ReLU] and the classifier is [convolution, normalization]; the
\* normalization is there exactly when batch_norm or instance_norm is set.
C10_Norm ==
    IF args.batch_norm THEN <<"BatchNorm">>
    ELSE IF args.instance_norm THEN <<"InstanceNorm">> ELSE <<>>
C10_LayerOrder ==
    Constructed =>
        /\ Kinds(net.block[1].convolutional_block)
             = <<"Pad", "Conv">> \o C10_Norm \o <<"ReLU">>
        /\ \A rb \in ResidualBlocks(net) :
             \A c \in 1..Len(rb.residual_block) :
                Kinds(rb.residual_block[c].convolutional_block)
                  = C10_Norm \o <<"ReLU", "Pad", "Conv">>
        /\ args.add_dropout_layer =>
             /\ Kinds(net.block[Len(net.block) - 2].convolutional_block)
                  = <<"Conv">> \o C10_Norm \o <<"ReLU">>
             /\ net.block[Len(net.block) - 1].kind = "Dropout3d"
        /\ Kinds(Classifier(net).convolutional_block) = <<"Conv">> \o C10_Norm

C10_Witness ==
    /\ Constructed
    /\ args.instance_norm /\ args.add_dropout_layer
    /\ args.dilations = 2
    /\ Kinds(DilationBlockAt(net, 1).dilation_block[1].residual_block[1]
                .convolutional_block)
         = <<"InstanceNorm", "ReLU", "Pad", "Conv">>
====
